---- MODULE Spec2Model ----
(***************************************************************************)
(* Back end of the environment-status service: the Firebase paths          *)
(* /ambiente (readings) and /media (the 5-minute average), the use cases,  *)
(* the use-case mediator, the HTTP controller and the 10-second task       *)
(* CalculateAverageTask.handleCron; and the bootstrap of the front end:    *)
(* the Registry, initializeDependencies and the pages that inject from it. *)
(*                                                                         *)
(* JavaScript values are modelled as follows.  A number that results from  *)
(* a division is the exact quotient [num, den] in lowest terms; den = 0    *)
(* stands for the IEEE results of a division by zero: 0/0 is NaN and       *)
(* 1/0, -1/0 are +Infinity, -Infinity.  A value that may be null is a      *)
(* sequence of length at most one (<<>> is null).  undefined, where a      *)
(* string is expected, is the string "undefined".                          *)
(***************************************************************************)
EXTENDS Integers, Sequences, FiniteSets, TLC

(* ------------------------------ bounds --------------------------------- *)
\* number of timer ticks explored
MaxTicks == 2
\* number of readings the ingestion path adds to /ambiente
MaxReadings == 2
\* new Date().valueOf() when the process starts, in milliseconds
StartTime == 2000500
\* number of pages the front end renders
MaxRenders == 4

(* ------------------------- program constants --------------------------- *)
IntervalMs == 10000
FiveMinutesMs == 1000 * 60 * 5
HalfHourMs == 1000 * 60 * 30

Undefined == "undefined"
NaN == [num |-> 0, den |-> 0]

\* the grades a reading carries
Grades == {"BOM", "MODERADO", "RUIM"}

(* ------------------------------ readings ------------------------------- *)
\* keys of /ambiente are Unix seconds; the ones the ingestion path may use
IngestKeys == {100, 1000, 1710, 2100}

\* measurements of a reading as stored in Firebase (Portuguese names)
Measurements ==
  { [luminosidade |-> 100, som |-> 40, temperatura |-> 20, umidade |-> 50,
     luminosidade_status |-> "BOM", som_status |-> "MODERADO",
     temperatura_status |-> "BOM", umidade_status |-> "RUIM"],
    [luminosidade |-> 300, som |-> 60, temperatura |-> 22, umidade |-> 70,
     luminosidade_status |-> "RUIM", som_status |-> "RUIM",
     temperatura_status |-> "MODERADO", umidade_status |-> "RUIM"] }

FirebaseEnviromentStatus(key, m) ==
  [luminosidade |-> m.luminosidade, som |-> m.som,
   temperatura |-> m.temperatura, umidade |-> m.umidade,
   timestamp |-> key * 1000,
   luminosidade_status |-> m.luminosidade_status,
   som_status |-> m.som_status,
   temperatura_status |-> m.temperatura_status,
   umidade_status |-> m.umidade_status]

(* ------------------------------ numbers -------------------------------- *)
Abs(x) == IF x < 0 THEN -x ELSE x

RECURSIVE GCD(_, _)
GCD(a, b) == IF b = 0 THEN a ELSE GCD(b, a % b)

Sign(x) == IF x > 0 THEN 1 ELSE IF x < 0 THEN -1 ELSE 0

\* the JavaScript quotient a / b of two integers
Div(a, b) ==
  IF b = 0 THEN [num |-> Sign(a), den |-> 0]
  ELSE LET g == GCD(Abs(a), Abs(b))
       IN  [num |-> (Sign(b) * a) \div g, den |-> Abs(b) \div g]

IsFinite(q) == q.den # 0

(* ------------------------- classification maps ------------------------- *)
statusValues == [g \in Grades |->
                   IF g = "BOM" THEN 3 ELSE IF g = "MODERADO" THEN 2 ELSE 1]

\* the decoding table written in the order of statusValues: 1 is BOM
statusInverted ==
  [n \in {1, 2, 3} |->
     IF n = 3 THEN "RUIM" ELSE IF n = 2 THEN "MODERADO" ELSE "BOM"]

status == [n \in {1, 2, 3} |->
             IF n = 3 THEN "BOM" ELSE IF n = 2 THEN "MODERADO" ELSE "RUIM"]

\* status[q]: the property of the object literal whose name is String(q)
statusOf(q) ==
  IF q.den = 1 /\ q.num \in DOMAIN status THEN status[q.num] ELSE Undefined

(* ------------------------ Firebase and repository ---------------------- *)
Min(S) == CHOOSE x \in S : \A y \in S : x <= y
Max(S) == CHOOSE x \in S : \A y \in S : y <= x

\* Object.values of an object whose keys are integer-like: ascending keys
RECURSIVE ObjectValues(_)
ObjectValues(obj) ==
  IF DOMAIN obj = {} THEN <<>>
  ELSE LET k == Min(DOMAIN obj)
       IN  <<obj[k]>> \o ObjectValues([j \in DOMAIN obj \ {k} |-> obj[j]])

\* (limit / 1000).toString().split('.')[0] for limit >= 0
initialKey(limit) == limit \div 1000

\* ref(path).orderByKey().startAt(initialKey).once('value')
getDataBiggerThan(db, limit) ==
  [k \in {j \in DOMAIN db : j >= initialKey(limit)} |-> db[k]]

toEnviromentStatus(item) ==
  [luminosity |-> item.luminosidade, sounds |-> item.som,
   temperature |-> item.temperatura, timestamp |-> item.timestamp,
   humidity |-> item.umidade,
   luminosityStatus |-> item.luminosidade_status,
   soundsStatus |-> item.som_status,
   temperatureStatus |-> item.temperatura_status,
   humidityStatus |-> item.umidade_status]

MapSeq(s) == [i \in 1..Len(s) |-> toEnviromentStatus(s[i])]

\* a list that keeps only the readings of the keys from 1000 on
listRecent(db) == MapSeq(ObjectValues(getDataBiggerThan(db, 1000000)))

list(db) == MapSeq(ObjectValues(db))

getStatusBiggerThan(db, timestamp) ==
  MapSeq(ObjectValues(getDataBiggerThan(db, timestamp)))

\* ref(path).orderByKey().limitToLast(1): null on an empty path
getLastData(db) == IF DOMAIN db = {} THEN <<>> ELSE <<db[Max(DOMAIN db)]>>

getLast(item) ==
  [luminosity |-> item.luminosidade, sounds |-> item.som,
   temperature |-> item.temperatura, humidity |-> item.umidade,
   luminosityStatus |-> item.luminosidade_status,
   soundsStatus |-> item.som_status,
   temperatureStatus |-> item.temperatura_status,
   humidityStatus |-> item.umidade_status]

\* a write that replaces the numbers of the stored value and keeps its grades
setDataPatched(old, data) ==
  IF old = <<>> \/ data = <<>> THEN data
  ELSE <<[luminosity |-> data[1].luminosity, sounds |-> data[1].sounds,
          temperature |-> data[1].temperature,
          humidity |-> data[1].humidity,
          luminosityStatus |-> old[1].luminosityStatus,
          soundsStatus |-> old[1].soundsStatus,
          temperatureStatus |-> old[1].temperatureStatus,
          humidityStatus |-> old[1].humidityStatus]>>

\* ref(path).set(data): the value at the path after the write
setData(old, data) == data

(* --------------------- CalculateCurrentEnviromentStatus ---------------- *)
average0 ==
  [luminosity |-> 0, sounds |-> 0, temperature |-> 0, humidity |-> 0,
   luminosityStatus |-> 0, soundsStatus |-> 0, temperatureStatus |-> 0,
   humidityStatus |-> 0]

\* addRecord with the humidity of the record added to the temperature sum
addRecordMixed(average, record) ==
  [luminosity |-> average.luminosity + record.luminosity,
   sounds |-> average.sounds + record.sounds,
   temperature |-> average.temperature + record.humidity,
   humidity |-> average.humidity + record.humidity,
   luminosityStatus |->
     average.luminosityStatus + statusValues[record.luminosityStatus],
   soundsStatus |-> average.soundsStatus + statusValues[record.soundsStatus],
   temperatureStatus |->
     average.temperatureStatus + statusValues[record.temperatureStatus],
   humidityStatus |->
     average.humidityStatus + statusValues[record.humidityStatus]]

\* one iteration of the loop over the records of the window
addRecord(average, record) ==
  [luminosity |-> average.luminosity + record.luminosity,
   sounds |-> average.sounds + record.sounds,
   temperature |-> average.temperature + record.temperature,
   humidity |-> average.humidity + record.humidity,
   luminosityStatus |->
     average.luminosityStatus + statusValues[record.luminosityStatus],
   soundsStatus |-> average.soundsStatus + statusValues[record.soundsStatus],
   temperatureStatus |->
     average.temperatureStatus + statusValues[record.temperatureStatus],
   humidityStatus |->
     average.humidityStatus + statusValues[record.humidityStatus]]

RECURSIVE accumulate(_, _, _)
accumulate(data, i, average) ==
  IF i > Len(data) THEN average
  ELSE accumulate(data, i + 1, addRecord(average, data[i]))

lastFiveMinutes(data) ==
  LET average == accumulate(data, 1, average0)
      length == Len(data)
  IN  [luminosity |-> Div(average.luminosity, length),
       sounds |-> Div(average.sounds, length),
       temperature |-> Div(average.temperature, length),
       humidity |-> Div(average.humidity, length),
       luminosityStatus |-> statusOf(Div(average.luminosityStatus, length)),
       soundsStatus |-> statusOf(Div(average.soundsStatus, length)),
       temperatureStatus |->
         statusOf(Div(average.temperatureStatus, length)),
       humidityStatus |-> statusOf(Div(average.humidityStatus, length))]

(* ------------------------------ mediator ------------------------------- *)
UseCases == {"ListEnviromentStatusUseCase",
             "GetCurrentEnviromentStatusUseCase",
             "CalculateCurrentEnviromentStatusUseCase",
             "GetLastHalfHourCurrentEnvironmentStatusUseCase",
             "GetLastEnvironmentStatusUseCase"}

\* registrations in which the list use case goes under the name spelt
\* listEnvironmentStatus, which is not the name the controller passes
UseCaseMediatorRespelt ==
  [e \in {"listEnvironmentStatus", "getCurrentEnvironmentStatus",
          "calculateCurrentEnviromentStatusUseCase",
          "getLastHalfHourEnvironmentStatusUseCase",
          "getLastEnvironmentStatusUseCase"} |->
     CASE e = "listEnvironmentStatus" -> "ListEnviromentStatusUseCase"
       [] e = "getCurrentEnvironmentStatus" ->
            "GetCurrentEnviromentStatusUseCase"
       [] e = "calculateCurrentEnviromentStatusUseCase" ->
            "CalculateCurrentEnviromentStatusUseCase"
       [] e = "getLastHalfHourEnvironmentStatusUseCase" ->
            "GetLastHalfHourCurrentEnvironmentStatusUseCase"
       [] e = "getLastEnvironmentStatusUseCase" ->
            "GetLastEnvironmentStatusUseCase"]

\* the registrations of the constructor of UseCaseMediator
UseCaseMediator ==
  [e \in {"listEnviromentStatus", "getCurrentEnvironmentStatus",
          "calculateCurrentEnviromentStatusUseCase",
          "getLastHalfHourEnvironmentStatusUseCase",
          "getLastEnvironmentStatusUseCase"} |->
     CASE e = "listEnviromentStatus" -> "ListEnviromentStatusUseCase"
       [] e = "getCurrentEnvironmentStatus" ->
            "GetCurrentEnviromentStatusUseCase"
       [] e = "calculateCurrentEnviromentStatusUseCase" ->
            "CalculateCurrentEnviromentStatusUseCase"
       [] e = "getLastHalfHourEnvironmentStatusUseCase" ->
            "GetLastHalfHourCurrentEnvironmentStatusUseCase"
       [] e = "getLastEnvironmentStatusUseCase" ->
            "GetLastEnvironmentStatusUseCase"]

\* this.eventsMap[event] = useCase
register(map, event, useCase) ==
  [e \in DOMAIN map \cup {event} |-> IF e = event THEN useCase ELSE map[e]]

\* properties every object literal inherits from Object.prototype
ObjectPrototype == {"constructor", "toString"}

\* names passed to notify that the constructor did not register
UnregisteredNames == {"unregisteredName", "constructor", "toString"}

\* the inputs callers pass to notify
Inputs == {"{}", "null"}

\* lookup that routes the latest-reading event to the list use case
lookupSwapped(map, event) ==
  IF event \in DOMAIN map
  THEN (IF event = "getLastEnvironmentStatusUseCase"
        THEN map["listEnviromentStatus"] ELSE map[event])
  ELSE IF event \in ObjectPrototype THEN "Object.prototype." \o event
  ELSE Undefined

\* this.eventsMap[event]
lookup(map, event) ==
  IF event \in DOMAIN map THEN map[event]
  ELSE IF event \in ObjectPrototype THEN "Object.prototype." \o event
  ELSE Undefined

\* what notify does with the event: throws ConflictException, calls
\* execute of a use case, or fails calling execute of a non-use-case
notify(map, event) ==
  IF lookup(map, event) = Undefined THEN "ConflictException"
  ELSE IF lookup(map, event) \in UseCases THEN "execute"
  ELSE "TypeError"

\* a controller whose current-snapshot endpoint passes the calculate event
AppControllerCalculates ==
  [p \in {"/environment-status-list", "/current-environment-status",
          "/half-hour-environment-status", "/last-environment-status"} |->
     CASE p = "/environment-status-list" -> "listEnviromentStatus"
       [] p = "/current-environment-status" ->
            "calculateCurrentEnviromentStatusUseCase"
       [] p = "/half-hour-environment-status" ->
            "getLastHalfHourEnvironmentStatusUseCase"
       [] p = "/last-environment-status" ->
            "getLastEnvironmentStatusUseCase"]

\* the event each endpoint of AppController passes to notify
AppController ==
  [p \in {"/environment-status-list", "/current-environment-status",
          "/half-hour-environment-status", "/last-environment-status"} |->
     CASE p = "/environment-status-list" -> "listEnviromentStatus"
       [] p = "/current-environment-status" -> "getCurrentEnvironmentStatus"
       [] p = "/half-hour-environment-status" ->
            "getLastHalfHourEnvironmentStatusUseCase"
       [] p = "/last-environment-status" ->
            "getLastEnvironmentStatusUseCase"]

(* ------------------------------- state --------------------------------- *)
VARIABLES
  now,         \* the clock, new Date().valueOf()
  ambiente,    \* /ambiente: key -> reading
  media,       \* /media: <<>> (null) or <<snapshot>>
  eventsMap,   \* the registry of the mediator
  ticks,       \* timer ticks fired so far
  runs,        \* the handleCron invocation of each tick
  response,    \* the outcome of the last notify made for a caller
  writeLog,    \* history: the ticks whose runs wrote /media, in write order
  mediaSource, \* history: the window the stored snapshot was computed from
               \* and the since-timestamp of the run that wrote it
  process,     \* "running", or "closed" once the application has shut down
  dependencies, \* front end: Registry.dependencies, name -> dependency
  boot,        \* front end: the position of main.tsx
  pages        \* front end, history: the pages rendered and what each injected

\* the variables of the front end and of the back end
front == <<dependencies, boot, pages>>
back == <<now, ambiente, media, eventsMap, ticks, runs, response, writeLog,
          mediaSource, process>>

vars == <<now, ambiente, media, eventsMap, ticks, runs, response, writeLog,
          mediaSource, process, dependencies, boot, pages>>

Ticks == 1..MaxTicks

idle == [pc |-> "idle", limit |-> 0, data |-> <<>>, value |-> <<>>]
ended(pc) == [pc |-> pc, limit |-> 0, data |-> <<>>, value |-> <<>>]

InFlight == {t \in Ticks : runs[t].pc \in {"awaitRead", "awaitWrite"}}

noResponse ==
  [event |-> "", input |-> "", outcome |-> "", handler |-> "",
   calls |-> <<>>, value |-> <<>>]

Init ==
  /\ now = StartTime
  /\ ambiente = <<>>
  /\ media = <<>>
  /\ eventsMap = UseCaseMediator
  /\ ticks = 0
  /\ runs = [t \in Ticks |-> idle]
  /\ response = noResponse
  /\ writeLog = <<>>
  /\ mediaSource = <<>>
  /\ process = "running"
  /\ dependencies = <<>>
  /\ boot = [pc |-> "initializing", next |-> 1]
  /\ pages = <<>>

(* ------------------------------ actions -------------------------------- *)
\* the ingestion path (outside the back end) stores a new reading
Ingest(key, m) ==
  /\ Cardinality(DOMAIN ambiente) < MaxReadings
  /\ key \notin DOMAIN ambiente
  /\ ambiente' = [k \in DOMAIN ambiente \cup {key} |->
                    IF k = key THEN FirebaseEnviromentStatus(key, m)
                    ELSE ambiente[k]]
  /\ UNCHANGED <<now, media, eventsMap, ticks, runs, response, writeLog,
                 mediaSource, process, front>>

\* a timer that a failed run stops: no tick fires once a run was rejected
handleCronUntilFailure(t) ==
  /\ process = "running"
  /\ \A u \in Ticks : runs[u].pc # "rejected"
  /\ ticks < MaxTicks
  /\ t = ticks + 1
  /\ ticks' = t
  /\ now' = now + IntervalMs
  /\ runs' = [runs EXCEPT ![t] =
       IF notify(eventsMap, "calculateCurrentEnviromentStatusUseCase")
            = "execute"
       THEN [pc |-> "awaitRead", limit |-> now' - FiveMinutesMs,
             data |-> <<>>, value |-> <<>>]
       ELSE ended("rejected")]
  /\ UNCHANGED <<ambiente, media, eventsMap, response, writeLog, mediaSource,
                 process, front>>

\* the timer fires: handleCron runs up to the await of the window query
handleCron(t) ==
  /\ process = "running"
  /\ ticks < MaxTicks
  /\ t = ticks + 1
  /\ ticks' = t
  /\ now' = now + IntervalMs
  /\ runs' = [runs EXCEPT ![t] =
       IF notify(eventsMap, "calculateCurrentEnviromentStatusUseCase")
            = "execute"
       THEN [pc |-> "awaitRead", limit |-> now' - FiveMinutesMs,
             data |-> <<>>, value |-> <<>>]
       ELSE ended("rejected")]
  /\ UNCHANGED <<ambiente, media, eventsMap, response, writeLog, mediaSource,
                 process, front>>

\* the window query resolves: execute computes the averages and calls
\* setLastFiveMinutesInsights
execute(t) ==
  /\ runs[t].pc = "awaitRead"
  /\ \E data \in {getStatusBiggerThan(ambiente, runs[t].limit)} :
       runs' = [runs EXCEPT ![t] =
         [pc |-> "awaitWrite", limit |-> runs[t].limit, data |-> data,
          value |-> <<lastFiveMinutes(data)>>]]
  /\ UNCHANGED <<now, ambiente, media, eventsMap, ticks, response, writeLog,
                 mediaSource, process, front>>

\* the window query fails: the rejection leaves execute, notify, handleCron
getStatusBiggerThanFails(t) ==
  /\ runs[t].pc = "awaitRead"
  /\ runs' = [runs EXCEPT ![t] = ended("rejected")]
  /\ UNCHANGED <<now, ambiente, media, eventsMap, ticks, response, writeLog,
                 mediaSource, process, front>>

\* a write after which the run still awaits, so that it writes again
setLastFiveMinutesInsightsAgain(t) ==
  /\ runs[t].pc = "awaitWrite"
  /\ media' = setData(media, runs[t].value)
  /\ writeLog' = Append(writeLog, t)
  /\ mediaSource' = <<runs[t].data, runs[t].limit>>
  /\ UNCHANGED <<now, ambiente, eventsMap, ticks, runs, response, process,
                 front>>

\* a write that goes to the path of the readings and replaces them
setLastFiveMinutesInsightsWrongPath(t) ==
  /\ runs[t].pc = "awaitWrite"
  /\ ambiente' = <<>>
  /\ writeLog' = Append(writeLog, t)
  /\ runs' = [runs EXCEPT ![t] = ended("done")]
  /\ UNCHANGED <<now, media, eventsMap, ticks, response, mediaSource,
                 process, front>>

\* a write that reads the window again and stores the average of that
setLastFiveMinutesInsightsReread(t) ==
  /\ runs[t].pc = "awaitWrite"
  /\ media' = setData(media,
       <<lastFiveMinutes(getStatusBiggerThan(ambiente, runs[t].limit))>>)
  /\ writeLog' = Append(writeLog, t)
  /\ mediaSource' = <<runs[t].data, runs[t].limit>>
  /\ runs' = [runs EXCEPT ![t] = ended("done")]
  /\ UNCHANGED <<now, ambiente, eventsMap, ticks, response, process, front>>

\* ref('/media').set(data) takes effect and handleCron ends
setLastFiveMinutesInsights(t) ==
  /\ runs[t].pc = "awaitWrite"
  /\ media' = setData(media, runs[t].value)
  /\ writeLog' = Append(writeLog, t)
  /\ mediaSource' = <<runs[t].data, runs[t].limit>>
  /\ runs' = [runs EXCEPT ![t] = ended("done")]
  /\ UNCHANGED <<now, ambiente, eventsMap, ticks, response, process, front>>

\* ref('/media').set(data) fails: the rejection leaves handleCron
setLastFiveMinutesInsightsFails(t) ==
  /\ runs[t].pc = "awaitWrite"
  /\ runs' = [runs EXCEPT ![t] = ended("rejected")]
  /\ UNCHANGED <<now, ambiente, media, eventsMap, ticks, response, writeLog,
                 mediaSource, process, front>>

\* queryResult with the current snapshot recomputed from /ambiente instead
\* of read from /media
queryResultRecomputed(handler) ==
  CASE handler = "ListEnviromentStatusUseCase" ->
         [outcome |-> "returned", value |-> list(ambiente)]
    [] handler = "GetCurrentEnviromentStatusUseCase" ->
         [outcome |-> "returned",
          value |-> <<lastFiveMinutes(
                        getStatusBiggerThan(ambiente, now - FiveMinutesMs))>>]
    [] handler = "GetLastHalfHourCurrentEnvironmentStatusUseCase" ->
         [outcome |-> "returned",
          value |-> getStatusBiggerThan(ambiente, now - HalfHourMs)]
    [] handler = "GetLastEnvironmentStatusUseCase" ->
         IF getLastData(ambiente) = <<>>
         THEN [outcome |-> "TypeError", value |-> <<>>]
         ELSE [outcome |-> "returned",
               value |-> <<getLast(getLastData(ambiente)[1])>>]

\* the result of execute of the four query use cases
queryResult(handler) ==
  CASE handler = "ListEnviromentStatusUseCase" ->
         [outcome |-> "returned", value |-> list(ambiente)]
    [] handler = "GetCurrentEnviromentStatusUseCase" ->
         [outcome |-> "returned", value |-> media]
    [] handler = "GetLastHalfHourCurrentEnvironmentStatusUseCase" ->
         [outcome |-> "returned",
          value |-> getStatusBiggerThan(ambiente, now - HalfHourMs)]
    [] handler = "GetLastEnvironmentStatusUseCase" ->
         IF getLastData(ambiente) = <<>>
         THEN [outcome |-> "TypeError", value |-> <<>>]
         ELSE [outcome |-> "returned",
               value |-> <<getLast(getLastData(ambiente)[1])>>]

\* a notify that records an unknown name in the registry before it throws
DispatchRemembersUnknown(event, input) ==
  /\ process = "running"
  /\ notify(eventsMap, event) = "ConflictException"
  /\ eventsMap' = register(eventsMap, event, Undefined)
  /\ response' = [event |-> event, input |-> input,
                  outcome |-> "ConflictException",
                  handler |-> "", calls |-> <<>>, value |-> <<>>]
  /\ UNCHANGED <<now, ambiente, media, ticks, runs, writeLog, mediaSource,
                 process, front>>

\* notify(event, input) made for a caller that awaits the result; calls
\* lists the invocations of execute that notify made
Dispatch(event, input) ==
  /\ process = "running"
  /\ response' =
       IF notify(eventsMap, event) = "execute"
       THEN LET handler == lookup(eventsMap, event)
                r == queryResult(handler)
            IN  [event |-> event, input |-> input, outcome |-> r.outcome,
                 handler |-> handler,
                 calls |-> <<[handler |-> handler, input |-> input]>>,
                 value |-> r.value]
       ELSE [event |-> event, input |-> input,
             outcome |-> notify(eventsMap, event),
             handler |-> "", calls |-> <<>>, value |-> <<>>]
  /\ UNCHANGED <<now, ambiente, media, eventsMap, ticks, runs, writeLog,
                 mediaSource, process, front>>

\* a GET request on one of the endpoints of AppController
HttpGet(path) == Dispatch(AppController[path], "{}")

\* the store fails while a query use case awaits it
HttpGetFails(path) ==
  /\ process = "running"
  /\ notify(eventsMap, AppController[path]) = "execute"
  /\ response' = [event |-> AppController[path], input |-> "{}",
                  outcome |-> "StoreUnavailable",
                  handler |-> lookup(eventsMap, AppController[path]),
                  calls |-> <<[handler |->
                                lookup(eventsMap, AppController[path]),
                              input |-> "{}"]>>,
                  value |-> <<>>]
  /\ UNCHANGED <<now, ambiente, media, eventsMap, ticks, runs, writeLog,
                 mediaSource, process, front>>

\* notify called with a name the constructor did not register
NotifyUnregistered(event, input) == Dispatch(event, input)

\* a constructor of a mediator assigns a use case to an event name
Register(event, useCase) ==
  /\ eventsMap' = register(eventsMap, event, useCase)
  /\ UNCHANGED <<now, ambiente, media, ticks, runs, response, writeLog,
                 mediaSource, process, front>>

Next ==
  \/ \E key \in IngestKeys, m \in Measurements : Ingest(key, m)
  \/ \E t \in Ticks : handleCron(t)
  \/ \E t \in Ticks : execute(t)
  \/ \E t \in Ticks : getStatusBiggerThanFails(t)
  \/ \E t \in Ticks : setLastFiveMinutesInsights(t)
  \/ \E t \in Ticks : setLastFiveMinutesInsightsFails(t)
  \/ \E path \in DOMAIN AppController : HttpGet(path)
  \/ \E path \in DOMAIN AppController : HttpGetFails(path)
  \/ \E event \in UnregisteredNames, input \in Inputs :
       NotifyUnregistered(event, input)

Spec == Init /\ [][Next]_vars

\* the timer fires as long as the process runs, and the store answers every
\* request made to it, with a failure or with a result
Fairness ==
  /\ WF_vars(\E t \in Ticks : handleCron(t))
  /\ \A t \in Ticks :
       /\ WF_vars(getStatusBiggerThanFails(t) \/ execute(t))
       /\ WF_vars(setLastFiveMinutesInsightsFails(t)
                    \/ setLastFiveMinutesInsights(t))

\* the process with current-snapshot requests as its traffic
LiveNext ==
  \/ \E key \in IngestKeys, m \in Measurements : Ingest(key, m)
  \/ \E t \in Ticks : handleCron(t)
  \/ \E t \in Ticks : execute(t)
  \/ \E t \in Ticks : getStatusBiggerThanFails(t)
  \/ \E t \in Ticks : setLastFiveMinutesInsights(t)
  \/ \E t \in Ticks : setLastFiveMinutesInsightsFails(t)
  \/ HttpGet("/current-environment-status")

SpecLive == Init /\ [][LiveNext]_vars /\ Fairness

\* the application shuts down: the interval of handleCron is cleared and
\* the HTTP server stops; CalculateAverageTask declares no shutdown hook and
\* keeps no reference to the promise of a handleCron in progress, so the
\* shutdown completes whatever the runs in flight are doing
Close ==
  /\ process = "running"
  /\ process' = "closed"
  /\ UNCHANGED <<now, ambiente, media, eventsMap, ticks, runs, response,
                 writeLog, mediaSource, front>>

\* the behaviours of the back end up to and after its shutdown; a run in
\* flight at the shutdown may still complete, fail, or never resume
NextShutdown == Next \/ Close

SpecShutdown == Init /\ [][NextShutdown]_vars

\* the construction of a mediator: eventsMap starts as {} and the
\* constructor registers use cases by assignment
SetupInit ==
  /\ now = StartTime
  /\ ambiente = <<>>
  /\ media = <<>>
  /\ eventsMap = <<>>
  /\ ticks = 0
  /\ runs = [t \in Ticks |-> idle]
  /\ response = noResponse
  /\ writeLog = <<>>
  /\ mediaSource = <<>>
  /\ process = "running"
  /\ dependencies = <<>>
  /\ boot = [pc |-> "initializing", next |-> 1]
  /\ pages = <<>>

SetupNext ==
  \E event \in DOMAIN UseCaseMediator, useCase \in UseCases :
    Register(event, useCase)

SpecSetup == SetupInit /\ [][SetupNext]_vars

(* ------------------------------ front end ------------------------------ *)
\* the provide statements of initializeDependencies with the gateway first
initializeDependenciesGatewayFirst ==
  <<[name |-> "Router", dependency |-> "WindowApiRouter"],
    [name |-> "EnvironmentGateway", dependency |-> "HttpEvironmentGateway"],
    [name |-> "HttpClient", dependency |-> "AxiosHttpClient"]>>

\* the provide statements of initializeDependencies, in program order
initializeDependencies ==
  <<[name |-> "Router", dependency |-> "WindowApiRouter"],
    [name |-> "HttpClient", dependency |-> "AxiosHttpClient"],
    [name |-> "EnvironmentGateway", dependency |-> "HttpEvironmentGateway"]>>

\* the names the field initializers of a class inject when it is constructed
ConstructorInjects ==
  [c \in {"WindowApiRouter", "AxiosHttpClient", "HttpEvironmentGateway"} |->
     IF c = "HttpEvironmentGateway" THEN <<"HttpClient">> ELSE <<>>]

\* the names each page of App injects when it renders, in hook order
PageInjects ==
  [r \in {"/", "/environment-status-list", "/current-environment-status",
          "/last-half-hour-environment-status"} |->
     IF r = "/" THEN <<"Router">> ELSE <<"EnvironmentGateway", "Router">>]

\* Registry.provide: this.dependencies[name] = dependency
provide(deps, name, dependency) ==
  [n \in DOMAIN deps \cup {name} |->
     IF n = name THEN dependency ELSE deps[n]]

\* Registry.inject: the dependency, or the Error thrown when it is missing
inject(deps, name) ==
  IF name \in DOMAIN deps THEN deps[name] ELSE "Error: not found"

\* the outcomes of the injections made in order, up to the first that throws
RECURSIVE injectAll(_, _)
injectAll(deps, names) ==
  IF names = <<>> THEN <<>>
  ELSE IF inject(deps, names[1]) = "Error: not found"
       THEN <<[name |-> names[1], outcome |-> "Error: not found"]>>
       ELSE <<[name |-> names[1], outcome |-> "injected"]>>
              \o injectAll(deps, Tail(names))

Thrown(outcomes) ==
  \E i \in 1..Len(outcomes) : outcomes[i].outcome = "Error: not found"

\* one statement of initializeDependencies: the argument new X() is
\* constructed, which runs the injections of its field initializers, and
\* then provided; an Error thrown by an injection leaves main.tsx
Provide ==
  /\ boot.pc = "initializing"
  /\ boot.next <= Len(initializeDependencies)
  /\ LET stmt == initializeDependencies[boot.next]
         made == injectAll(dependencies, ConstructorInjects[stmt.dependency])
     IN  IF Thrown(made)
         THEN /\ boot' = [pc |-> "failed", next |-> boot.next]
              /\ UNCHANGED dependencies
         ELSE /\ dependencies' =
                   provide(dependencies, stmt.name, stmt.dependency)
              /\ boot' = [pc |-> "initializing", next |-> boot.next + 1]
  /\ UNCHANGED <<pages, back>>

\* a page renders: its useInject hooks run in order
renderPage(route) ==
  /\ Len(pages) < MaxRenders
  /\ pages' = Append(pages,
       [route |-> route,
        injected |-> injectAll(dependencies, PageInjects[route])])

\* createRoot(...).render(<App />) after initializeDependencies returned:
\* the page of the current location renders
Mount(route) ==
  /\ boot.pc = "initializing"
  /\ boot.next > Len(initializeDependencies)
  /\ boot' = [pc |-> "mounted", next |-> boot.next]
  /\ renderPage(route)
  /\ UNCHANGED <<dependencies, back>>

\* router.forward(route) or a navigation of the browser: a page renders
Forward(route) ==
  /\ boot.pc = "mounted"
  /\ renderPage(route)
  /\ UNCHANGED <<dependencies, boot, back>>

FrontNext ==
  \/ Provide
  \/ \E route \in DOMAIN PageInjects : Mount(route)
  \/ \E route \in DOMAIN PageInjects : Forward(route)

SpecFront == Init /\ [][FrontNext]_vars

TypeOK ==
  /\ ticks \in 0..MaxTicks
  /\ Len(media) <= 1
  /\ \A t \in Ticks : runs[t].pc \in
       {"idle", "awaitRead", "awaitWrite", "done", "rejected"}
  /\ process \in {"running", "closed"}
  /\ boot.pc \in {"initializing", "failed", "mounted"}
  /\ Len(pages) <= MaxRenders

(* ------------------------- vocabulary of the claims -------------------- *)
NumericFields == {"luminosity", "sounds", "temperature", "humidity"}
GradeFields == {"luminosityStatus", "soundsStatus", "temperatureStatus",
                "humidityStatus"}

\* the sum of one numeric field over the records of a window
RECURSIVE FieldSum(_, _)
FieldSum(data, f) ==
  IF data = <<>> THEN 0 ELSE data[1][f] + FieldSum(Tail(data), f)

\* the sum of the ordinal scores of one grade field over a window
RECURSIVE ScoreSum(_, _)
ScoreSum(data, f) ==
  IF data = <<>> THEN 0
  ELSE (CASE data[1][f] = "RUIM" -> 1
          [] data[1][f] = "MODERADO" -> 2
          [] data[1][f] = "BOM" -> 3) + ScoreSum(Tail(data), f)

\* a score clamped to [1,3] and rounded to the nearest of 1, 2, 3, ties up
RoundedGrade(q) ==
  LET n == IF q.num < q.den THEN 1
           ELSE IF q.num > 3 * q.den THEN 3
           ELSE (2 * q.num + q.den) \div (2 * q.den)
  IN  CASE n = 1 -> "RUIM" [] n = 2 -> "MODERADO" [] n = 3 -> "BOM"

\* the stored snapshot and the window it was computed from
Stored == media # <<>> /\ mediaSource # <<>>
StoredFromReadings == Stored /\ Len(mediaSource[1]) >= 1

(* ------------------------------- claims -------------------------------- *)

\* C1: at most one aggregation run is in flight at any time; a tick that
\* fires while the previous run has not completed starts no run.
AtMostOneRunInFlight == Cardinality(InFlight) <= 1

\* C2: the writes of /media happen in tick order: a run of an older tick
\* never writes after the run of a newer tick has written.
WritesInTickOrder ==
  \A i, j \in 1..Len(writeLog) : i < j => writeLog[i] < writeLog[j]

\* C3: a run whose window holds no reading performs no write: the step that
\* ends it leaves /media as it was.
EmptyWindowLeavesSnapshot ==
  [][\A t \in Ticks :
       (runs[t].pc = "awaitWrite" /\ Len(runs[t].data) = 0
          /\ runs'[t].pc = "done") => media' = media]_vars

\* C4: no numeric field of the snapshot stored in /media is NaN or Infinity.
SnapshotHasNoDivisionArtifact ==
  media # <<>> => \A f \in NumericFields : IsFinite(media[1][f])

\* C5: each grade field of a snapshot written from a non-empty window is
\* one of the three grades, never undefined.
SnapshotGradesAreGrades ==
  StoredFromReadings => \A f \in GradeFields : media[1][f] \in Grades

\* C6: decoding is defined for every score: the grade execute derives from
\* a mean score is the score clamped to [1,3] and rounded to the nearest of
\* 1, 2, 3 with ties going up (1.5 is MODERADO, 2.5 is BOM).
DecodeIsClampedRounding ==
  \A t \in Ticks :
    (runs[t].pc = "awaitWrite" /\ Len(runs[t].data) >= 1) =>
      \A f \in GradeFields :
        LET score == Div(accumulate(runs[t].data, 1, average0)[f],
                         Len(runs[t].data))
        IN  statusOf(score) = RoundedGrade(score)

\* C7: each grade field of the stored snapshot is the decoding of the mean
\* of the ordinal scores of that field over the N >= 1 readings of the
\* window (RUIM 1, MODERADO 2, BOM 3).
SnapshotGradeIsDecodedMean ==
  StoredFromReadings =>
    \A f \in GradeFields :
      media[1][f] =
        RoundedGrade(Div(ScoreSum(mediaSource[1], f), Len(mediaSource[1])))

FailureStaysInsideHandleCron ==
  /\ \A t \in Ticks : runs[t].pc # "rejected"
  /\ ticks < MaxTicks => ENABLED handleCron(ticks + 1)

\* C10: notify with a name that was not registered fails with
\* ConflictException and calls no handler.
UnregisteredNameIsConflict ==
  (response.event # "" /\ response.event \notin DOMAIN eventsMap) =>
    (response.outcome = "ConflictException" /\ response.handler = "")

\* C11: a registration under a name that is already registered fails: the
\* handler a name maps to is never replaced by a later registration.
RegistrationNeverOverwritten ==
  [][\A e \in DOMAIN eventsMap :
       e \in DOMAIN eventsMap' /\ eventsMap'[e] = eventsMap[e]]_vars

\* C12: notify with a registered name calls execute of the use case
\* registered under that name exactly once, with the input it was given,
\* and hands back what execute returned or the failure it raised.
DispatchRoutesToRegisteredHandler ==
  [][(response' # response /\ response'.event \in DOMAIN UseCaseMediator) =>
       LET h == UseCaseMediator[response'.event]
       IN  /\ response'.handler = h
           /\ response'.calls = <<[handler |-> h, input |-> response'.input]>>
           /\ \/ response'.outcome = "StoreUnavailable"
                   /\ response'.value = <<>>
              \/ response'.outcome = queryResult(h).outcome
                   /\ response'.value = queryResult(h).value]_vars

\* C12 witness: the list event returned the two stored readings.
ListReturnedTwoReadings ==
  /\ response.event = "listEnviromentStatus"
  /\ response.outcome = "returned"
  /\ response.calls =
       <<[handler |-> "ListEnviromentStatusUseCase", input |-> "{}"]>>
  /\ Len(response.value) = 2

\* C13: on an empty /ambiente the latest-reading query fails with NotFound,
\* not with an unrelated error, and returns no reading.
EmptyStoreLatestIsNotFound ==
  [][(response' # response
        /\ response'.event = "getLastEnvironmentStatusUseCase"
        /\ DOMAIN ambiente = {}
        /\ response'.outcome # "StoreUnavailable") =>
       response'.outcome = "NotFound"]_vars

\* C14: the current-snapshot query never returns null as if it were a
\* snapshot: while /media was never written it fails with NotFound.
NeverWrittenSnapshotIsNotFound ==
  (response.event = "getCurrentEnvironmentStatus"
     /\ response.outcome = "returned") => response.value # <<>>

\* the records of a query result are in non-decreasing timestamp order and
\* none is earlier than the since-timestamp (milliseconds)
InOrderAndNotBefore(data, since) ==
  /\ \A i \in 1..Len(data) : data[i].timestamp >= since
  /\ \A i, j \in 1..Len(data) :
       i < j => data[i].timestamp <= data[j].timestamp

\* C15: the window query returns its readings in non-decreasing takenAt
\* order and none earlier than the since-timestamp, for the 5-minute window
\* of the aggregation and for the 30-minute window of the half-hour query.
WindowQueryInOrderAndNotBefore ==
  [][/\ \A t \in Ticks :
          (runs[t].pc = "awaitRead" /\ runs'[t].pc = "awaitWrite") =>
            InOrderAndNotBefore(runs'[t].data, runs[t].limit)
     /\ (response' # response
          /\ response'.event = "getLastHalfHourEnvironmentStatusUseCase"
          /\ response'.outcome = "returned") =>
           InOrderAndNotBefore(response'.value, now - HalfHourMs)]_vars

\* C16: every reading averaged into the stored snapshot has its timestamp
\* in [now - W, now], now being the start of the run and W five minutes.
SnapshotReadingsInsideWindow ==
  Stored =>
    \A i \in 1..Len(mediaSource[1]) :
      /\ mediaSource[1][i].timestamp >= mediaSource[2]
      /\ mediaSource[1][i].timestamp <= mediaSource[2] + FiveMinutesMs

\* the number of writes of /media made by the run of tick t
RECURSIVE Writes(_, _)
Writes(log, t) ==
  IF log = <<>> THEN 0
  ELSE (IF log[1] = t THEN 1 ELSE 0) + Writes(Tail(log), t)

\* C17: in one run the window read precedes the write: /media is written
\* only by a run whose window query has resolved, with the snapshot computed
\* from the window it read; a run that completed wrote exactly once; a run
\* whose window query fails ends there, without a write then or later.
ReadThenOneWrite ==
  /\ [](\A t \in Ticks :
          Writes(writeLog, t) = (IF runs[t].pc = "done" THEN 1 ELSE 0))
  /\ [][/\ (writeLog' # writeLog \/ media' # media) =>
            \E t \in Ticks :
              /\ runs[t].pc = "awaitWrite"
              /\ runs[t].value = <<lastFiveMinutes(runs[t].data)>>
              /\ writeLog' = Append(writeLog, t)
              /\ media' = runs[t].value
         /\ \A u \in Ticks :
              /\ (runs[u].pc = "awaitRead" /\ runs'[u].pc = "rejected") =>
                   (media' = media /\ writeLog' = writeLog)
              /\ runs[u].pc = "rejected" => runs'[u].pc = "rejected"]_vars

\* C17 witness: the run of tick 1 failed and wrote nothing, the run of
\* tick 2 read a window and wrote it.
OneRunFailedOneWrote ==
  /\ runs[1].pc = "rejected"
  /\ runs[2].pc = "done"
  /\ writeLog = <<2>>
  /\ StoredFromReadings

\* C18: /media is replaced as a whole by one set: it always holds one
\* complete snapshot, all of it from the latest write, and a
\* current-snapshot query made while a run is about to write returns the
\* whole old or the whole new value.
SlotReplacedWholesale ==
  /\ [](media = <<>> \/
         (mediaSource # <<>> /\ media = <<lastFiveMinutes(mediaSource[1])>>))
  /\ [][(response' # response
           /\ response'.event = "getCurrentEnvironmentStatus"
           /\ response'.outcome = "returned") =>
          response'.value \in {media, media'}]_vars

\* C18 witness: a query returned the stored snapshot while a run that
\* computed a different snapshot awaits its write.
QueryBesidePendingWrite ==
  /\ Len(writeLog) = 1
  /\ media # <<>>
  /\ response.event = "getCurrentEnvironmentStatus"
  /\ response.outcome = "returned"
  /\ response.value = media
  /\ \E t \in Ticks : runs[t].pc = "awaitWrite" /\ runs[t].value # media

\* C19: no operation of the back end changes or deletes a stored reading:
\* every reading of /ambiente stays as it is, and a step of a tick, a run
\* or a notify leaves /ambiente unchanged.
ReadingsOnlyGrowByIngestion ==
  [][/\ \A k \in DOMAIN ambiente :
          k \in DOMAIN ambiente' /\ ambiente'[k] = ambiente[k]
     /\ (ticks' # ticks \/ runs' # runs \/ response' # response
           \/ media' # media \/ writeLog' # writeLog)
          => ambiente' = ambiente]_vars

\* C19 witness: two readings are stored, a run has written /media and a
\* query has returned.
ReadingsKeptAfterRunAndQuery ==
  /\ Cardinality(DOMAIN ambiente) = 2
  /\ writeLog # <<>>
  /\ \E t \in Ticks : runs[t].pc = "done"
  /\ response.outcome = "returned"

\* C20: the query use cases only read: a notify leaves /media unchanged,
\* and the current-snapshot query returns the snapshot of the latest write.
QueriesOnlyRead ==
  [][response' # response =>
       /\ media' = media
       /\ (response'.event = "getCurrentEnvironmentStatus"
            /\ response'.outcome = "returned" /\ writeLog # <<>>) =>
             response'.value = <<lastFiveMinutes(mediaSource[1])>>]_vars

\* C20 witness: after two writes the current-snapshot query returned the
\* stored snapshot, computed from a window of readings.
CurrentSnapshotReturned ==
  /\ Len(writeLog) = 2
  /\ StoredFromReadings
  /\ response.event = "getCurrentEnvironmentStatus"
  /\ response.outcome = "returned"
  /\ response.value = media

\* C21: the shutdown stops the ticks, lets a run in flight finish and only
\* then returns: the application is closed only when no run is in flight,
\* and once it is closed no tick fires and no run step remains to be taken.
ShutdownWaitsForRunInFlight ==
  [][/\ (process = "running" /\ process' = "closed") => InFlight = {}
     /\ process = "closed" => (ticks' = ticks /\ runs' = runs)]_vars

\* C22: the timer keeps firing whatever queries are dispatched and
\* whatever became of earlier runs: every tick of the bound fires; and a
\* run that has read a non-empty window ends, with a store failure or with
\* a write of /media of the snapshot computed from that window.
TicksFireAndRunsWrite ==
  /\ <>(ticks = MaxTicks)
  /\ \A t \in Ticks :
       (runs[t].pc = "awaitWrite" /\ Len(runs[t].data) >= 1)
         ~> (runs[t].pc \in {"done", "rejected"})
  /\ [][\A t \in Ticks :
          (runs[t].pc = "awaitWrite" /\ runs'[t].pc = "done") =>
            /\ media' = <<lastFiveMinutes(runs[t].data)>>
            /\ writeLog' = Append(writeLog, t)]_vars

\* C22 witness: every tick fired, the first run failed, a later run wrote
\* the snapshot of a non-empty window, and a query was answered meanwhile.
AllTicksFiredAndWindowWritten ==
  /\ ticks = MaxTicks
  /\ runs[1].pc = "rejected"
  /\ StoredFromReadings
  /\ response.outcome = "returned"

\* C23: on a non-empty /ambiente the latest-reading query returns the
\* reading of the greatest key with its four measurements, its four grades
\* and its timestamp.
LatestIsNewestWithTimestamp ==
  [][(response' # response
        /\ response'.event = "getLastEnvironmentStatusUseCase"
        /\ response'.outcome = "returned") =>
       LET newest == toEnviromentStatus(ambiente[Max(DOMAIN ambiente)])
       IN  /\ DOMAIN response'.value[1] = DOMAIN newest
           /\ \A f \in DOMAIN newest : response'.value[1][f] = newest[f]]_vars

\* an output record carries the measurements, grades and timestamp of a
\* stored reading
SameReading(out, item) ==
  /\ out.luminosity = item.luminosidade
  /\ out.sounds = item.som
  /\ out.temperature = item.temperatura
  /\ out.humidity = item.umidade
  /\ out.luminosityStatus = item.luminosidade_status
  /\ out.soundsStatus = item.som_status
  /\ out.temperatureStatus = item.temperatura_status
  /\ out.humidityStatus = item.umidade_status
  /\ out.timestamp = item.timestamp

\* C24: the list query returns one output record per stored reading, every
\* stored reading among them whatever its age, and on an empty /ambiente it
\* returns the empty list, not a failure.
ListReturnsEveryReading ==
  [][(response' # response
        /\ response'.event = "listEnviromentStatus"
        /\ response'.outcome # "StoreUnavailable") =>
       /\ response'.outcome = "returned"
       /\ Len(response'.value) = Cardinality(DOMAIN ambiente)
       /\ \A k \in DOMAIN ambiente :
            \E i \in 1..Len(response'.value) :
              SameReading(response'.value[i], ambiente[k])]_vars

\* C24 witness: the list query returned two readings, one of them the
\* reading of key 100, older than every window.
ListReturnedOldReading ==
  /\ response.event = "listEnviromentStatus"
  /\ response.outcome = "returned"
  /\ Len(response.value) = 2
  /\ \E i \in 1..2 : response.value[i].timestamp = 100000

\* C25: the front end provides its dependencies in dependency order: no
\* injection made while a dependency is constructed throws, so the
\* bootstrap does not fail and 'HttpClient' is provided when the gateway is;
\* and every injection of every page that renders finds its dependency.
DependenciesProvidedBeforeInjected ==
  /\ boot.pc # "failed"
  /\ "EnvironmentGateway" \in DOMAIN dependencies =>
       "HttpClient" \in DOMAIN dependencies
  /\ \A i \in 1..Len(pages) : ~Thrown(pages[i].injected)
  /\ pages # <<>> =>
       \A r \in DOMAIN PageInjects :
         \A j \in 1..Len(PageInjects[r]) :
           PageInjects[r][j] \in DOMAIN dependencies

\* C25 witness: the bootstrap has mounted the application and the home
\* page and a page injecting the gateway and the router have rendered.
PagesRenderedAfterBootstrap ==
  /\ boot.pc = "mounted"
  /\ dependencies["EnvironmentGateway"] = "HttpEvironmentGateway"
  /\ \E i, j \in 1..Len(pages) :
       /\ pages[i].route = "/"
       /\ pages[j].route = "/current-environment-status"
       /\ Len(pages[j].injected) = 2

\* C26: a field whose grade is the same in every reading of a non-empty
\* window has that grade in the snapshot; and the snapshot of a window of
\* one reading has the four measurements and the four grades of that
\* reading.
UniformGradeIsKept ==
  StoredFromReadings =>
    LET data == mediaSource[1]
    IN  /\ \A f \in GradeFields :
             (\A i \in 1..Len(data) : data[i][f] = data[1][f]) =>
               media[1][f] = data[1][f]
        /\ Len(data) = 1 =>
             \A f \in NumericFields :
               media[1][f] = [num |-> data[1][f], den |-> 1]

\* C26 witness: a window of two readings that agree on the grade of the
\* humidity and differ on the grade of the luminosity was written.
UniformGradeAveraged ==
  /\ StoredFromReadings
  /\ Len(mediaSource[1]) = 2
  /\ mediaSource[1][1].humidityStatus = mediaSource[1][2].humidityStatus
  /\ mediaSource[1][1].luminosityStatus # mediaSource[1][2].luminosityStatus
  /\ media[1].humidityStatus = mediaSource[1][1].humidityStatus

\* C27: every snapshot written derives from one window read: the run keeps
\* the result of its read until it writes, and the eight fields it writes
\* are the sums over that one result divided by its one count, whatever was
\* ingested and whatever other runs did meanwhile.
SnapshotFromSingleRead ==
  [][\A t \in Ticks :
       /\ (runs[t].pc = "awaitWrite" /\ runs'[t].pc = "awaitWrite") =>
            runs'[t].data = runs[t].data
       /\ (runs[t].pc = "awaitWrite" /\ runs'[t].pc = "done") =>
            LET data == runs[t].data
            IN  /\ media' # <<>>
                /\ \A f \in NumericFields :
                     media'[1][f] = Div(FieldSum(data, f), Len(data))
                /\ \A f \in GradeFields :
                     media'[1][f]
                       = statusOf(Div(ScoreSum(data, f), Len(data)))]_vars

\* C27 witness: a snapshot is stored from a window that /ambiente no longer
\* answers to the same query, while another run holds a different window.
SnapshotOfEarlierRead ==
  /\ StoredFromReadings
  /\ mediaSource[1] # getStatusBiggerThan(ambiente, mediaSource[2])
  /\ \E t \in Ticks :
       runs[t].pc = "awaitWrite" /\ runs[t].data # mediaSource[1]

\* C28: /media is written only by the runs the timer started: no endpoint
\* of the controller passes the calculate event, and a step that answers a
\* request leaves /media, the write history and the runs as they were.
OnlyScheduledRunsWrite ==
  /\ [](/\ \A path \in DOMAIN AppController :
             AppController[path] # "calculateCurrentEnviromentStatusUseCase"
        /\ \A i \in 1..Len(writeLog) : writeLog[i] \in 1..ticks)
  /\ [][/\ (response' # response) =>
            (/\ media' = media /\ writeLog' = writeLog /\ runs' = runs
             /\ ticks' = ticks
             /\ response'.handler
                  # "CalculateCurrentEnviromentStatusUseCase")
        /\ (media' # media) => (writeLog' # writeLog)]_vars

\* C28 witness: the half-hour query was answered after the run of the first
\* tick wrote /media and while the run of the second tick is in flight.
QueryAnsweredBesideScheduledRun ==
  /\ writeLog = <<1>>
  /\ media # <<>>
  /\ ticks = 2
  /\ InFlight = {2}
  /\ response.event = "getLastHalfHourEnvironmentStatusUseCase"
  /\ response.outcome = "returned"

\* C29: every event name the controller and the scheduled task pass to
\* notify is registered with the use case of its query shape: none of
\* these calls ends with the unknown-command error.
CallersNamesAreRegistered ==
  /\ [](/\ lookup(eventsMap, AppController["/environment-status-list"])
             = "ListEnviromentStatusUseCase"
        /\ lookup(eventsMap, AppController["/current-environment-status"])
             = "GetCurrentEnviromentStatusUseCase"
        /\ lookup(eventsMap, AppController["/half-hour-environment-status"])
             = "GetLastHalfHourCurrentEnvironmentStatusUseCase"
        /\ lookup(eventsMap, AppController["/last-environment-status"])
             = "GetLastEnvironmentStatusUseCase"
        /\ lookup(eventsMap, "calculateCurrentEnviromentStatusUseCase")
             = "CalculateCurrentEnviromentStatusUseCase"
        /\ \A path \in DOMAIN AppController :
             response.event = AppController[path] =>
               response.outcome # "ConflictException")
  /\ [][ticks' # ticks => runs'[ticks'].pc = "awaitRead"]_vars

\* C29 witness: the latest-reading endpoint was answered and the task of
\* the second tick has started its run.
EndpointAndTaskDispatched ==
  /\ response.event = "getLastEnvironmentStatusUseCase"
  /\ response.outcome = "returned"
  /\ ticks = 2
  /\ runs[2].pc = "awaitRead"

\* C30: the registry of the mediator stays as the constructor left it: no
\* notify, whether it returns, fails with the unknown-command error or
\* passes on the failure of a use case, adds, removes or replaces an entry.
RegistryFixedAfterConstruction ==
  /\ [](eventsMap = UseCaseMediator)
  /\ [][eventsMap' = eventsMap]_vars

\* C30 witness: an unknown name was refused after a run of the task wrote
\* and one failed, and the registry holds its five entries.
RegistryAfterRefusedNotify ==
  /\ response.outcome = "ConflictException"
  /\ writeLog # <<>>
  /\ \E t \in Ticks : runs[t].pc = "rejected"
  /\ Cardinality(DOMAIN eventsMap) = 5

====
